---------------------------- MODULE Spec2Model ----------------------------
(***************************************************************************)
(* A model of repolib: the Source entity (source.py), the one-line parser  *)
(* (parsedeb.py) and the SourceFile container (file.py).                   *)
(*                                                                         *)
(* Text is modelled as a sequence of lexemes.  The delimiter characters    *)
(* the code looks at (" ", "#", "[", "]", "=", ",", ":") are lexemes of    *)
(* their own; every other lexeme ("deb", "http://a", "X-Repolib-Name:",    *)
(* "%5B", ...) stands for a run of characters that the code never looks    *)
(* inside, except through the predicates defined on lexemes below.         *)
(***************************************************************************)
EXTENDS Integers, Sequences, FiniteSets, TLC

VARIABLES
    pc,      \* what the last operation was
    ent,     \* the Source entity under assignment
    res,     \* the last rendering: [err, text]
    parsed,  \* what the last parse returned or raised
    line,    \* the text last handed to the one-line parser
    file,    \* the SourceFile
    disk     \* the sources directory: file name -> lines

vars == <<pc, ent, res, parsed, line, file, disk>>

(***************************************************************************)
(* Bounds of the model.                                                    *)
(***************************************************************************)
MaxVals == 2
MaxWords == 4
MaxFileLines == 3

None == "None"

(***************************************************************************)
(* Python str methods, on sequences of lexemes.                            *)
(***************************************************************************)
WhiteSpace == {" ", "\t", "\n"}

IsSpace(c) == c \in WhiteSpace

RECURSIVE LStrip(_, _)
LStrip(s, cs) ==
    IF s # << >> /\ Head(s) \in cs THEN LStrip(Tail(s), cs) ELSE s

RECURSIVE RStrip(_, _)
RStrip(s, cs) ==
    IF s # << >> /\ s[Len(s)] \in cs THEN RStrip(SubSeq(s, 1, Len(s) - 1), cs) ELSE s

StripChars(s, cs) == RStrip(LStrip(s, cs), cs)

Strip(s) == StripChars(s, WhiteSpace)

StartsWith(s, p) == Len(s) >= Len(p) /\ SubSeq(s, 1, Len(p)) = p

Contains(s, c) == \E i \in 1..Len(s) : s[i] = c

\* str.find(c) for a one-lexeme needle, as a 0-based offset, -1 when absent
Find(s, c) ==
    IF Contains(s, c) THEN (CHOOSE i \in 1..Len(s) : s[i] = c /\ \A j \in 1..(i - 1) : s[j] # c) - 1
    ELSE -1

\* str.split(): the maximal runs of non-space lexemes
RECURSIVE SplitAcc(_, _, _)
SplitAcc(s, cur, acc) ==
    IF s = << >> THEN (IF cur = << >> THEN acc ELSE Append(acc, cur))
    ELSE IF IsSpace(Head(s))
         THEN SplitAcc(Tail(s), << >>, IF cur = << >> THEN acc ELSE Append(acc, cur))
         ELSE SplitAcc(Tail(s), Append(cur, Head(s)), acc)

Split(s) == SplitAcc(s, << >>, << >>)

\* str.split(sep) for a one-lexeme separator: empty pieces are kept
RECURSIVE SplitOnAcc(_, _, _, _)
SplitOnAcc(s, sep, cur, acc) ==
    IF s = << >> THEN Append(acc, cur)
    ELSE IF Head(s) = sep
         THEN SplitOnAcc(Tail(s), sep, << >>, Append(acc, cur))
         ELSE SplitOnAcc(Tail(s), sep, Append(cur, Head(s)), acc)

SplitOn(s, sep) == SplitOnAcc(s, sep, << >>, << >>)

\* sep.join(words)
RECURSIVE Join(_, _)
Join(words, sep) ==
    IF words = << >> THEN << >>
    ELSE IF Len(words) = 1 THEN words[1]
    ELSE words[1] \o sep \o Join(Tail(words), sep)

\* str.replace(a, b) for one-lexeme a and b
Replace(s, a, b) == [i \in 1..Len(s) |-> IF s[i] = a THEN b ELSE s[i]]

RECURSIVE Flatten(_)
Flatten(ss) == IF ss = << >> THEN << >> ELSE Head(ss) \o Flatten(Tail(ss))

(***************************************************************************)
(* util.py is not among the repository's files: what the code uses of it   *)
(* is modelled from the specification.                                     *)
(***************************************************************************)
\* util.SourceType: BINARY = "deb", SOURCECODE = "deb-src"
BINARY == "deb"
SOURCECODE == "deb-src"
SourceTypes == {BINARY, SOURCECODE}

\* util.true_values: what counts as an affirmative flag
true_values == {"True", "yes", "Yes", "y", "true"}

\* util.CLEAN_CHARS: ident.translate drops the lexemes outside the identifier class
CleanChars(s) == SelectSeq(s, LAMBDA c : c \notin {"!", " ", "\t", "\n", "#", "[", "]"})

\* util.AptSourceEnabled.get_bool
get_bool(v) == v = "yes"

\* util.url_validator: a word with a scheme and a location or path after it
UrlSchemes == {"http://a", "http://b", "http://c", "http://d"}
url_validator(w) == w # << >> /\ Head(w) \in UrlSchemes

(***************************************************************************)
(* debian.deb822.Deb822, the base class of Source: an insertion-ordered    *)
(* mapping whose keys compare without regard to case.  A mapping is a      *)
(* sequence of entries [k, v].                                             *)
(***************************************************************************)
Lower(k) ==
    CASE k \in {"Types", "types"} -> "types"
      [] k \in {"PDiffs", "Pdiffs"} -> "pdiffs"
      [] OTHER -> k

DHas(d, k) == \E i \in 1..Len(d) : Lower(d[i].k) = Lower(k)

DIndex(d, k) == CHOOSE i \in 1..Len(d) : Lower(d[i].k) = Lower(k)

DGet(d, k) == d[DIndex(d, k)].v

\* self[k] with the "except KeyError" default of the property getters
DGetOr(d, k, dflt) == IF DHas(d, k) THEN DGet(d, k) ELSE dflt

DSet(d, k, v) ==
    IF DHas(d, k) THEN [d EXCEPT ![DIndex(d, k)].v = v]
    ELSE Append(d, [k |-> k, v |-> v])

DPop(d, k) == SelectSeq(d, LAMBDA e : Lower(e.k) # Lower(k))

DKeys(d) == {Lower(d[i].k) : i \in 1..Len(d)}

(***************************************************************************)
(* The option tables.                                                      *)
(***************************************************************************)
ShortKeys ==
    <<"arch", "lang", "target", "pdiffs", "by-hash", "allow-insecure",
      "allow-weak", "allow-downgrade-to-insecure", "trusted", "signed-by",
      "check-valid-until", "valid-until-min", "valid-until-max">>

\* options_d with the fields of arch and lang exchanged
options_d_swapped(k) ==
    CASE k = "arch" -> "Languages"
      [] k = "lang" -> "Architectures"
      [] OTHER -> "Targets"

\* ParseDeb.options_d: short key -> DEB822 field
options_d(k) ==
    CASE k = "arch" -> "Architectures"
      [] k = "lang" -> "Languages"
      [] k = "target" -> "Targets"
      [] k = "pdiffs" -> "PDiffs"
      [] k = "by-hash" -> "By-Hash"
      [] k = "allow-insecure" -> "Allow-Insecure"
      [] k = "allow-weak" -> "Allow-Weak"
      [] k = "allow-downgrade-to-insecure" -> "Allow-Downgrade-To-Insecure"
      [] k = "trusted" -> "Trusted"
      [] k = "signed-by" -> "Signed-By"
      [] k = "check-valid-until" -> "Check-Valid-Until"
      [] k = "valid-until-min" -> "Valid-Until-Min"
      [] k = "valid-until-max" -> "Valid-Until-Max"

InOptionsD(k) == \E i \in 1..Len(ShortKeys) : ShortKeys[i] = k

\* The field each option property of Source reads and writes
OptionField(k) ==
    CASE k = "arch" -> "Architectures"
      [] k = "lang" -> "Languages"
      [] k = "target" -> "Targets"
      [] k = "pdiffs" -> "Pdiffs"
      [] k = "by-hash" -> "By-Hash"
      [] k = "allow-insecure" -> "Allow-Insecure"
      [] k = "allow-weak" -> "Allow-Weak"
      [] k = "allow-downgrade-to-insecure" -> "Allow-Downgrade-To-Insecure"
      [] k = "trusted" -> "Trusted"
      [] k = "signed-by" -> "Signed-By"
      [] k = "check-valid-until" -> "Check-Valid-Until"
      [] k = "valid-until-min" -> "Valid-Until-Min"
      [] k = "valid-until-max" -> "Valid-Until-Max"

(***************************************************************************)
(* Source (source.py).  An entity is a record: d, the Deb822 mapping;      *)
(* options, the _options attribute (short key -> value); comments,         *)
(* twin_source and file, the plain attributes.                             *)
(***************************************************************************)
\* Source.ident (getter)
ident(e) == DGetOr(e.d, "X-Repolib-ID", << >>)

\* Source.uris, Source.suites, Source.components (getters)
uris(e) == IF DHas(e.d, "URIs") THEN Split(DGet(e.d, "URIs")) ELSE << >>
suites(e) == IF DHas(e.d, "Suites") THEN Split(DGet(e.d, "Suites")) ELSE << >>
components(e) == IF DHas(e.d, "Components") THEN Split(DGet(e.d, "Components")) ELSE << >>

\* Source.types (getter): reads self['types'], one SourceType per word
types(e) == IF DHas(e.d, "types") THEN Split(DGet(e.d, "types")) ELSE << >>

has_required_parts_no_ident(e) ==
    ~ (Len(uris(e)) < 1 \/ Len(suites(e)) < 1)

\* Source.has_required_parts
has_required_parts(e) ==
    ~ (Len(uris(e)) < 1 \/ Len(suites(e)) < 1 \/ Len(ident(e)) < 1)

\* Source.enabled (getter): an AptSourceEnabled, by its value "yes" or "no"
enabled(e) ==
    IF ~ DHas(e.d, "Enabled") THEN "no"
    ELSE IF DGet(e.d, "Enabled") \in {<<v>> : v \in true_values} /\ has_required_parts(e)
         THEN "yes"
         ELSE "no"

\* Source.generate_default_name: stores the ident as the name when there is none
generate_default_name(e) ==
    IF DGet(e.d, "X-Repolib-Name") = << >>
    THEN [e EXCEPT !.d = DSet(e.d, "X-Repolib-Name", ident(e))]
    ELSE e

\* Source.name (getter): the entity as the getter leaves it, and the value read
NameTouched(e) ==
    IF DGetOr(e.d, "X-Repolib-Name", << >>) = << >> THEN generate_default_name(e) ELSE e

name(e) == DGet(NameTouched(e).d, "X-Repolib-Name")

\* One option property getter (architectures, languages, ..., valid_until_max)
option_get(e, k) == DGetOr(e.d, OptionField(k), << >>)

\* Source._update_legacy_options, through the options setter
update_legacy_options(e) ==
    [e EXCEPT !.options = [i \in 1..Len(ShortKeys) |-> option_get(e, ShortKeys[i])]]

\* Source.options (getter), as a mapping short key -> value
OptionOf(e, k) == e.options[CHOOSE i \in 1..Len(ShortKeys) : ShortKeys[i] = k]

\* The property setters
set_ident(e, v) == [e EXCEPT !.d = DSet(e.d, "X-Repolib-ID", CleanChars(v))]

set_name(e, v) == [e EXCEPT !.d = DSet(e.d, "X-Repolib-Name", v)]

set_enabled(e, v) ==
    [e EXCEPT !.d = DSet(e.d, "Enabled", IF v \in true_values THEN <<"yes">> ELSE <<"no">>)]

\* types setter: drops repeated types, joins the values with spaces
RECURSIVE Dedup(_, _)
Dedup(l, acc) ==
    IF l = << >> THEN acc
    ELSE Dedup(Tail(l), IF \E i \in 1..Len(acc) : acc[i] = Head(l) THEN acc ELSE Append(acc, Head(l)))

set_types(e, l) ==
    [e EXCEPT !.d = DSet(e.d, "Types", Strip(Join([i \in 1..Len(Dedup(l, << >>)) |-> <<Dedup(l, << >>)[i]>>], <<" ">>)))]

set_uris(e, l) == [e EXCEPT !.d = DSet(e.d, "URIs", Strip(Join(l, <<" ">>)))]

set_suites(e, l) == [e EXCEPT !.d = DSet(e.d, "Suites", Strip(Join(l, <<" ">>)))]

set_components(e, l) == [e EXCEPT !.d = DSet(e.d, "Components", Strip(Join(l, <<" ">>)))]

\* One option property setter: pop the field, set it when the value is not empty
set_option(e, k, v) ==
    update_legacy_options(
        [e EXCEPT !.d = IF v # << >> THEN DSet(DPop(e.d, OptionField(k)), OptionField(k), v)
                        ELSE DPop(e.d, OptionField(k))])

\* Source.reset_values: every known attribute back to its default
reset_values(e) ==
    LET e1 == set_components(set_suites(set_uris(set_types(set_enabled(
                  set_name(set_ident(e, << >>), << >>), "True"), <<BINARY>>), << >>), << >>), << >>)
        cleared == [e1 EXCEPT !.d = SelectSeq(e1.d, LAMBDA f :
                        \A i \in 1..Len(ShortKeys) : Lower(f.k) # Lower(OptionField(ShortKeys[i])))]
    IN  [update_legacy_options(cleared) EXCEPT !.comments = << >>, !.file = None]

\* Source.__init__ with no arguments
NewSource ==
    reset_values([d |-> << >>, options |-> << >>, comments |-> << >>,
                  twin_source |-> FALSE, file |-> None])

(***************************************************************************)
(* Rendering (source.py).  A rendering is [err, text]: err is "ok" or the  *)
(* exception the code raises, and then there is no text.                   *)
(***************************************************************************)
Raise(x) == [err |-> x, text |-> << >>]

\* Source._legacy_options: "key=v1,v2 " for every option that is set
RECURSIVE legacy_options_from(_, _)
legacy_options_from(e, i) ==
    IF i > Len(ShortKeys) THEN << >>
    ELSE (IF e.options[i] # << >>
          THEN <<ShortKeys[i], "=">> \o Replace(e.options[i], " ", ",") \o <<" ">>
          ELSE << >>) \o legacy_options_from(e, i + 1)

legacy_options(e) == legacy_options_from(e, 1)

TooMany_off_by_one(e) == Len(types(e)) > 2 \/ Len(uris(e)) > 2 \/ Len(suites(e)) > 2

\* The guard of _generate_legacy_output: more than one type, URI or suite
TooMany(e) == Len(types(e)) > 1 \/ Len(uris(e)) > 1 \/ Len(suites(e)) > 1

\* Source._generate_legacy_output
generate_legacy_output(e, sourcecode) ==
    IF TooMany(e) THEN Raise("SourceError")
    ELSE IF ~ sourcecode /\ types(e) = << >> THEN Raise("IndexError")
    ELSE IF uris(e) = << >> \/ suites(e) = << >> THEN Raise("IndexError")
    ELSE
      LET dis == IF ~ get_bool(enabled(e)) THEN <<"#", " ">> ELSE << >>
          ty == IF sourcecode THEN <<SOURCECODE, " ">> ELSE types(e)[1] \o <<" ">>
          os == legacy_options(e)
          head == IF os # << >> THEN Strip(dis \o ty \o <<"[">> \o os) \o <<"]", " ">>
                  ELSE dis \o ty
          comps == Flatten([i \in 1..Len(components(e)) |-> components(e)[i] \o <<" ">>])
          cmts == Flatten([i \in 1..Len(e.comments) |-> <<" ", "#", " ">> \o e.comments[i]])
      IN  [err |-> "ok",
           text |-> head \o uris(e)[1] \o <<" ">> \o suites(e)[1] \o <<" ">> \o comps
                    \o <<" ", "#", "#", " ", "X-Repolib-Name", ":", " ">> \o name(e)
                    \o <<" ", "#", " ", "X-Repolib-ID", ":", " ">> \o ident(e)
                    \o cmts]

\* The bracketed option group of a legacy line, as _generate_legacy_output
\* writes it: nothing at all when no option is set
option_group(e) ==
    IF legacy_options(e) # << >> THEN Strip(<<"[">> \o legacy_options(e)) \o <<"]">> ELSE << >>

\* Source.legacy (and output_legacy): the line, and a deb-src twin line when asked
legacy(e) ==
    LET e1 == update_legacy_options(e)
        first == generate_legacy_output(e1, FALSE)
        second == generate_legacy_output(NameTouched(e1), TRUE)
    IN  IF first.err # "ok" THEN first
        ELSE IF ~ e1.twin_source THEN first
        ELSE IF second.err # "ok" THEN second
        ELSE [err |-> "ok", text |-> first.text \o <<"\n">> \o second.text]

\* Deb822.dump: one "Key: value" line per field, "Key:" when the value is empty
dump(d) ==
    [i \in 1..Len(d) |->
        IF d[i].v = << >> THEN <<d[i].k, ":">> ELSE <<d[i].k, ":", " ">> \o d[i].v]

\* Source.deb822 (and output_822): the stanza as its lines
deb822(e) ==
    LET e1 == update_legacy_options(e)
        withc == IF e1.comments # << >>
                 THEN DSet(e1.d, "X-Repolib-Comments",
                           <<"#", " ">> \o Join(e1.comments, <<" ", "#", " ">>))
                 ELSE e1.d
    IN  dump(withc)

(***************************************************************************)
(* The one-line parser (parsedeb.py).                                      *)
(***************************************************************************)
\* strip_hashes: strip "#" and blanks from both ends until no "#" leads
RECURSIVE strip_hashes(_)
strip_hashes(l) ==
    LET t == Strip(StripChars(l, {"#"}))
    IN  IF t # << >> /\ Head(t) = "#" THEN strip_hashes(t) ELSE t

\* decode_brackets: %5B and %5D back to [ and ]
decode_brackets(w) == Replace(Replace(w, "%5B", "["), "%5D", "]")

\* The character loop of debsplit: st = [pieces, tmp, p_found]
RECURSIVE debsplit_loop(_, _)
debsplit_loop(l, st) ==
    IF l = << >> THEN (IF Len(st.tmp) > 0 THEN Append(st.pieces, st.tmp) ELSE st.pieces)
    ELSE LET c == Head(l)
         IN  debsplit_loop(Tail(l),
               IF c = "[" THEN [st EXCEPT !.p_found = TRUE, !.tmp = Append(@, c)]
               ELSE IF c = "]" THEN [st EXCEPT !.p_found = FALSE, !.tmp = Append(@, c)]
               ELSE IF IsSpace(c) /\ ~ st.p_found
                    THEN [st EXCEPT !.pieces = Append(@, st.tmp), !.tmp = << >>]
               ELSE [st EXCEPT !.tmp = Append(@, c)])

\* debsplit: the pieces of a line; it raises nothing
debsplit(l) ==
    LET line_list == Split(Strip(l))
        decoded == [i \in 1..Len(line_list) |->
                      IF url_validator(line_list[i]) THEN decode_brackets(line_list[i])
                      ELSE line_list[i]]
    IN  debsplit_loop(Join(decoded, <<" ">>),
                      [pieces |-> << >>, tmp |-> << >>, p_found |-> FALSE])

\* parse_name_ident, one item of the loop: st = [nf, idf, name, ident, comment]
name_ident_step(st, item) ==
    LET bare == StripChars(item, {"#"})
        item_is_name == StartsWith(bare, <<"X-Repolib-Name", ":">>)
        item_is_ident == StartsWith(bare, <<"X-Repolib-Ident", ":">>)
        hash == Contains(item, "#") /\ ~ item_is_name /\ ~ item_is_ident
        s1 == IF hash THEN [st EXCEPT !.nf = FALSE, !.idf = FALSE] ELSE st
    IN  IF ~ hash /\ item_is_name THEN [st EXCEPT !.nf = TRUE, !.idf = FALSE]
        ELSE IF ~ hash /\ item_is_ident THEN [st EXCEPT !.nf = FALSE, !.idf = TRUE]
        ELSE IF s1.nf /\ ~ item_is_name THEN [s1 EXCEPT !.name = @ \o item \o <<" ">>]
        ELSE IF s1.idf /\ ~ item_is_ident THEN [s1 EXCEPT !.ident = @ \o item, !.idf = FALSE]
        ELSE IF ~ s1.nf /\ ~ s1.idf THEN [s1 EXCEPT !.comment = @ \o bare \o <<" ">>]
        ELSE s1

RECURSIVE name_ident_loop(_, _)
name_ident_loop(parts, st) ==
    IF parts = << >> THEN st ELSE name_ident_loop(Tail(parts), name_ident_step(st, Head(parts)))

\* parse_name_ident: [err, name, ident, comment]
parse_name_ident(c) ==
    LET comment == strip_hashes(c)
        has_name == \E i \in 1..(Len(comment) - 1) :
                        comment[i] = "X-Repolib-Name" /\ comment[i + 1] = ":"
        has_ident == Contains(comment, "X-Repolib-Ident")
        st == name_ident_loop(Split(comment),
                  [nf |-> FALSE, idf |-> FALSE, name |-> << >>, ident |-> << >>, comment |-> << >>])
    IN  IF (has_name /\ Strip(st.name) = << >>) \/ (has_ident /\ Strip(st.ident) = << >>)
        THEN [err |-> "ParseDebError", name |-> << >>, ident |-> << >>, comment |-> << >>]
        ELSE [err |-> "ok", name |-> Strip(st.name), ident |-> Strip(st.ident),
              comment |-> Strip(st.comment)]

\* ParseDeb.parse_options, the loop: acc is the mapping so far, prev the value
\* the local variable "key" holds (None before the first assignment)
RECURSIVE parse_options_loop(_, _, _)
parse_options_loop(opts, acc, prev) ==
    IF opts = << >> THEN [err |-> "ok", val |-> acc, named |-> None]
    ELSE LET kv == SplitOn(Head(opts), "=")
         IN  IF Len(kv) # 2 THEN [err |-> "ValueError", val |-> << >>, named |-> None]
             ELSE IF kv[1] = << >> \/ Len(kv[1]) > 1 \/ ~ InOptionsD(kv[1][1])
                  THEN (IF prev = None
                        THEN [err |-> "UnboundLocalError", val |-> << >>, named |-> None]
                        ELSE [err |-> "ParseDebError", val |-> << >>, named |-> prev])
             ELSE LET key == options_d(kv[1][1])
                      value == Join(SplitOn(kv[2], ","), <<" ">>)
                      at == {i \in 1..Len(acc) : acc[i].k = key}
                  IN  parse_options_loop(Tail(opts),
                         IF at = {} THEN Append(acc, [k |-> key, v |-> value])
                         ELSE [i \in 1..Len(acc) |-> IF i \in at THEN [k |-> key, v |-> value] ELSE acc[i]],
                         key)

\* options[1:-1]: the first and the last character go.  A lexeme of one
\* character goes whole; a longer lexeme leaves a fragment of itself
OneChar == WhiteSpace \cup {"#", "[", "]", "=", ",", ":", "!"}
Fragment == "?"

Unbracket(o) ==
    IF Len(o) = 0 THEN << >>
    ELSE IF Len(o) = 1 THEN (IF o[1] \in OneChar THEN << >> ELSE <<Fragment>>)
    ELSE (IF o[1] \in OneChar THEN << >> ELSE <<Fragment>>)
         \o SubSeq(o, 2, Len(o) - 1)
         \o (IF o[Len(o)] \in OneChar THEN << >> ELSE <<Fragment>>)

\* ParseDeb.parse_options: [err, val, named]
parse_options(o) ==
    parse_options_loop(Split(Strip(Unbracket(Strip(o)))), << >>, None)

\* What parse_line returns or raises: err is "ok" or the exception
LineError(x) ==
    [err |-> x, enabled |-> FALSE, name |-> << >>, ident |-> << >>, comment |-> << >>,
     repo_type |-> << >>, uri |-> << >>, suite |-> << >>, components |-> << >>,
     options |-> << >>]

\* parse_line from the call of debsplit on: ni is what parse_name_ident gave
parse_line_parts(l, en, ni) ==
    LET parts == debsplit(l)
        rest1 == Tail(parts)
        bracket == \E i \in 1..Len(rest1) : Head(rest1[i]) = "["
        is_cdrom == \E i \in 1..Len(rest1) : Head(rest1[i]) = "[" /\ Contains(rest1[i], "cdrom")
        opts == IF bracket THEN parse_options(Head(rest1))
                ELSE [err |-> "ok", val |-> << >>, named |-> None]
        rest2 == IF bracket THEN Tail(rest1) ELSE rest1
    IN  IF Len(parts) < 3 THEN LineError("ParseDebError")
        ELSE IF Head(parts) \notin {<<"deb">>, <<"deb-src">>} THEN LineError("ParseDebError")
        ELSE IF is_cdrom THEN LineError("ParseDebError")
        ELSE IF opts.err # "ok" THEN LineError(opts.err)
        ELSE IF ~ url_validator(Head(rest2)) THEN LineError("ParseDebError")
        ELSE IF Tail(rest2) = << >> THEN LineError("IndexError")
        ELSE [err |-> "ok", enabled |-> en, name |-> ni.name, ident |-> ni.ident,
              comment |-> ni.comment, repo_type |-> Head(parts), uri |-> Head(rest2),
              suite |-> rest2[2], components |-> Tail(Tail(rest2)), options |-> opts.val]

\* ParseDeb.parse_line
parse_line(l) ==
    LET curr_line == Strip(l)
        commented == l # << >> /\ Head(l) = "#"
        l1 == IF commented THEN strip_hashes(l) ELSE l
        comments == Find(l1, "#")
        ni == IF comments > 0 THEN parse_name_ident(SubSeq(l1, comments + 2, Len(l1)))
              ELSE [err |-> "ok", name |-> << >>, ident |-> << >>, comment |-> << >>]
        l2 == IF comments > 0 THEN SubSeq(l1, 1, comments) ELSE l1
    IN  IF curr_line = <<"#">> \/ curr_line = << >> THEN LineError("ParseDebError")
        ELSE IF commented /\ Split(l1) = << >> THEN LineError("IndexError")
        ELSE IF commented /\ Head(Split(l1)) \notin {<<"deb">>, <<"deb-src">>}
             THEN LineError("ParseDebError")
        ELSE IF ni.err # "ok" THEN LineError(ni.err)
        ELSE parse_line_parts(l2, ~ commented, ni)

\* util.validate_debline: an optionally commented line that starts with a
\* repository type and holds a URL
validate_debline(l) ==
    LET v == IF l # << >> /\ Head(l) = "#"
             THEN Strip(SelectSeq(l, LAMBDA c : c # "#"))
             ELSE l
    IN  /\ v # << >>
        /\ Head(v) \in {"deb", "deb-src"}
        /\ \E i \in 1..Len(Split(v)) : url_validator(Split(v)[i])

\* Deb822.__init__(sequence=data): the mapping is emptied, then every
\* "Key: value" line is stored; comment lines and lines without a key are skipped
RECURSIVE deb822_parse(_, _)
deb822_parse(data, d) ==
    IF data = << >> \/ Head(data) = << >> THEN d
    ELSE LET l == Head(data)
         IN  deb822_parse(Tail(data),
                IF Len(l) >= 2 /\ l[1] \notin {"#", " "} /\ l[2] = ":"
                THEN DSet(d, l[1], Strip(SubSeq(l, 3, Len(l))))
                ELSE d)

\* Source.load_from_data: [err, ent], ent the entity as the call leaves it
load_from_data(e, data) ==
    LET e0 == reset_values(e)
        p == parse_line(data[1])
        \* the assignments made before self.types is given a str, whose
        \* .value the types setter then reads
        e1 == set_enabled(set_name(set_ident(e0, p.ident), p.name),
                          IF p.enabled THEN "True" ELSE "False")
    IN  IF data = << >> THEN [err |-> "IndexError", ent |-> e0]
        ELSE IF validate_debline(data[1])
        THEN (IF Len(data) > 1 THEN [err |-> "SourceError", ent |-> e0]
              ELSE IF p.err # "ok" THEN [err |-> p.err, ent |-> e0]
              ELSE [err |-> "AttributeError", ent |-> e1])
        ELSE [err |-> "ok", ent |-> [e0 EXCEPT !.d = deb822_parse(data, << >>)]]

(***************************************************************************)
(* The values the model draws from.                                        *)
(***************************************************************************)
UriPool == <<<<"http://a">>, <<"http://b">>, <<"http://c">>, <<"http://d">>>>
SuitePool == <<<<"focal">>, <<"jammy">>, <<"noble">>, <<"sid">>>>
CompPool == <<<<"main">>, <<"universe">>, <<"contrib">>, <<"extra">>>>

Prefixes(pool) == {SubSeq(pool, 1, n) : n \in 0..MaxVals}

TypeLists == UNION {[1..n -> SourceTypes] : n \in 0..MaxVals}

Idents == {<< >>, <<"id">>, <<"!">>}
Names == {<< >>, <<"my", " ", "nm">>}
Flags == {"True", "False", "yes", "no"}
OptionValues == {<< >>, <<"amd64", " ", "armel">>}
CommentLists == {<< >>, <<<<"note">>>>}

NoRes == [err |-> "none", text |-> << >>]
NoParse == [err |-> "none", ent |-> NewSource]
NoFile == [format |-> "none"]
NoDisk == << >>

(***************************************************************************)
(* The entity under assignment, rendering and re-loading.                  *)
(***************************************************************************)
Init ==
    /\ pc = "edit"
    /\ ent = NewSource
    /\ res = NoRes
    /\ parsed = NoParse
    /\ line = << >>
    /\ file = NoFile
    /\ disk = NoDisk

Assign(e) ==
    /\ pc = "edit"
    /\ ent' = e
    /\ UNCHANGED <<pc, res, parsed, line, file, disk>>

SetIdent == \E v \in Idents : Assign(set_ident(ent, v))
SetName == \E v \in Names : Assign(set_name(ent, v))
SetEnabled == \E v \in Flags : Assign(set_enabled(ent, v))
SetTypes == \E l \in TypeLists : Assign(set_types(ent, l))
SetUris == \E l \in Prefixes(UriPool) : Assign(set_uris(ent, l))
SetSuites == \E l \in Prefixes(SuitePool) : Assign(set_suites(ent, l))
SetComponents == \E l \in Prefixes(CompPool) : Assign(set_components(ent, l))
SetOption == \E v \in OptionValues : Assign(set_option(ent, "arch", v))
SetComments == \E l \in CommentLists : Assign([ent EXCEPT !.comments = l])
SetField == Assign([ent EXCEPT !.d = DSet(ent.d, "X-Foo", <<"bar">>)])

\* output_legacy(): the getters it runs refresh options and store a default name
OutputLegacy ==
    /\ pc = "edit"
    /\ pc' = "legacy"
    /\ res' = legacy(ent)
    /\ ent' = IF legacy(ent).err = "SourceError" THEN update_legacy_options(ent)
              ELSE NameTouched(update_legacy_options(ent))
    /\ UNCHANGED <<parsed, line, file, disk>>

\* output_822()
Output822 ==
    /\ pc = "edit"
    /\ pc' = "deb822"
    /\ res' = [err |-> "ok",
               text |-> Flatten([i \in 1..Len(deb822(ent)) |-> deb822(ent)[i] \o <<"\n">>])]
    /\ ent' = update_legacy_options(ent)
    /\ UNCHANGED <<parsed, line, file, disk>>

\* Source().load_from_data(...) on the text just rendered
LoadRendered ==
    /\ pc \in {"legacy", "deb822"}
    /\ res.err = "ok"
    /\ pc' = IF pc = "legacy" THEN "loaded_legacy" ELSE "loaded_deb822"
    /\ parsed' = load_from_data(NewSource,
                     IF pc = "legacy" THEN <<res.text>>
                     ELSE SplitOn(RStrip(res.text, {"\n"}), "\n"))
    /\ UNCHANGED <<ent, res, line, file, disk>>

\* The rendering and the re-loaded entity are dropped; the entity stays
Discard ==
    /\ pc \in {"legacy", "deb822", "loaded_legacy", "loaded_deb822"}
    /\ pc' = "edit"
    /\ res' = NoRes
    /\ parsed' = NoParse
    /\ UNCHANGED <<ent, line, file, disk>>

Next ==
    \/ SetIdent \/ SetName \/ SetEnabled \/ SetTypes \/ SetUris \/ SetSuites
    \/ SetComponents \/ SetOption \/ SetComments \/ SetField
    \/ OutputLegacy \/ Output822 \/ LoadRendered \/ Discard

Spec == Init /\ [][Next]_vars

(***************************************************************************)
(* C1: an entity reads enabled only when it has a URI, a suite and an      *)
(* ident; a stored affirmative flag with no URI reads disabled, and an     *)
(* entity with all three and an affirmative flag reads enabled.            *)
(***************************************************************************)
StoredFlag(e) == DHas(e.d, "Enabled") /\ DGet(e.d, "Enabled") \in {<<v>> : v \in true_values}

C1_WitnessFlagOnly ==
    StoredFlag(ent) /\ uris(ent) = << >> /\ ident(ent) # << >> /\ suites(ent) # << >>

(***************************************************************************)
(* C9: rendering a legacy line raises SourceError exactly when types, uris *)
(* or suites holds more than one value, and then yields no text.           *)
(***************************************************************************)
C9_TooManyValues ==
    pc = "legacy" =>
        /\ res.err = "SourceError" <=>
              (Len(types(ent)) > 1 \/ Len(uris(ent)) > 1 \/ Len(suites(ent)) > 1)
        /\ res.err = "SourceError" => res.text = << >>
        /\ (Len(types(ent)) = 1 /\ Len(uris(ent)) = 1 /\ Len(suites(ent)) = 1)
              => (res.err = "ok" /\ res.text # << >>)

C9_Witness ==
    /\ pc = "legacy"
    /\ res.err = "SourceError"
    /\ Len(uris(ent)) = 2
    /\ Len(types(ent)) = 1

C9_WitnessRendered ==
    pc = "legacy" /\ res.err = "ok" /\ Len(uris(ent)) = 1

(***************************************************************************)
(* C2: a legacy-representable entity (one type, one URI, one suite, an     *)
(* ident and a name) rendered to a legacy line and loaded back gives an    *)
(* entity with the same ident, name, enabled, types, uris, suites,         *)
(* components and options.                                                 *)
(***************************************************************************)
LegacyRepresentable(e) ==
    /\ Len(types(e)) = 1 /\ Len(uris(e)) = 1 /\ Len(suites(e)) = 1
    /\ ident(e) # << >> /\ DGet(e.d, "X-Repolib-Name") # << >>

SameFields(a, b) ==
    /\ ident(a) = ident(b)
    /\ name(a) = name(b)
    /\ enabled(a) = enabled(b)
    /\ types(a) = types(b)
    /\ uris(a) = uris(b)
    /\ suites(a) = suites(b)
    /\ components(a) = components(b)
    /\ a.options = b.options

C2_LegacyRoundTrip ==
    (pc = "loaded_legacy" /\ LegacyRepresentable(ent)) =>
        (parsed.err = "ok" /\ SameFields(parsed.ent, ent))

(***************************************************************************)
(* C3: an entity rendered to a DEB822 stanza and loaded back gives an      *)
(* entity with the same ident, name, enabled, types, uris, suites,         *)
(* components, options and comments, and the same unknown fields.          *)
(***************************************************************************)
KnownFields ==
    {"X-Repolib-ID", "X-Repolib-Name", "Enabled", "types", "URIs", "Suites",
     "Components", "X-Repolib-Comments"} \cup
    {Lower(OptionField(ShortKeys[i])) : i \in 1..Len(ShortKeys)}

UnknownFields(e) == {f \in {e.d[i] : i \in 1..Len(e.d)} : Lower(f.k) \notin KnownFields}

C3_StructuredRoundTrip ==
    pc = "loaded_deb822" =>
        /\ parsed.err = "ok"
        /\ SameFields(parsed.ent, ent)
        /\ parsed.ent.comments = ent.comments
        /\ UnknownFields(parsed.ent) = UnknownFields(ent)

(***************************************************************************)
(* The option codec: options of an entity written as a bracketed group     *)
(* (encode) and ParseDeb.parse_options (decode).                           *)
(***************************************************************************)
MaxOpts == 2

CodecKeys == {"arch", "pdiffs", "signed-by"}

CodecValues ==
    {<< >>, <<"amd64">>, <<"amd64", " ", "armel">>, <<"amd64", " ">>,
     <<"amd64", ",", "armel">>, <<"amd64", "=", "armel">>, <<"amd64", "\t", "armel">>}

\* key=value groups a caller may hand to parse_options
RawGroups ==
    {<<"arch", "=", "amd64", ",", "armel">>, <<"lang", "=", "en">>,
     <<"foo", "=", "bar">>, <<"pdiffs", "=", "yes">>}

RawOptionStrings ==
    {<<"[">> \o Join(g, <<" ">>) \o <<"]">> : g \in UNION {[1..n -> RawGroups] : n \in 0..MaxOpts}}

InitCodec ==
    /\ pc = "codec"
    /\ ent = NewSource
    /\ res = NoRes
    /\ parsed = NoParse
    /\ line = << >>
    /\ file = NoFile
    /\ disk = NoDisk

\* An option property is assigned
CodecSetOption ==
    /\ pc = "codec"
    /\ \E k \in CodecKeys, v \in CodecValues : ent' = set_option(ent, k, v)
    /\ UNCHANGED <<pc, res, parsed, line, file, disk>>

\* The options are written as the option group of a legacy line
EncodeOptions ==
    /\ pc = "codec"
    /\ pc' = "encoded"
    /\ res' = [err |-> "ok", text |-> option_group(update_legacy_options(ent))]
    /\ UNCHANGED <<ent, parsed, line, file, disk>>

\* parse_options on the group just written
DecodeEncoded ==
    /\ pc = "encoded"
    /\ pc' = "decoded"
    /\ parsed' = parse_options(res.text)
    /\ UNCHANGED <<ent, res, line, file, disk>>

\* parse_options on an option string from outside
DecodeRaw ==
    /\ pc = "codec"
    /\ pc' = "decoded_raw"
    /\ \E o \in RawOptionStrings : line' = o /\ parsed' = parse_options(o)
    /\ UNCHANGED <<ent, res, file, disk>>

CodecDiscard ==
    /\ pc \in {"encoded", "decoded", "decoded_raw"}
    /\ pc' = "codec"
    /\ res' = NoRes
    /\ parsed' = NoParse
    /\ line' = << >>
    /\ UNCHANGED <<ent, file, disk>>

NextCodec == CodecSetOption \/ EncodeOptions \/ DecodeEncoded \/ DecodeRaw \/ CodecDiscard

SpecCodec == InitCodec /\ [][NextCodec]_vars

\* The option fields of an entity that are set, and a decoded mapping, as sets
\* of <<field, value>> with the field compared as Deb822 compares keys
OptionMapping(e) ==
    {<<Lower(OptionField(ShortKeys[i])), option_get(e, ShortKeys[i])>> :
        i \in {j \in 1..Len(ShortKeys) : option_get(e, ShortKeys[j]) # << >>}}

DecodedMapping(val) == {<<Lower(val[i].k), val[i].v>> : i \in 1..Len(val)}

(***************************************************************************)
(* C4 as stated: for every mapping over the fixed keys with non-empty      *)
(* values, decoding the encoded option group gives the mapping back.       *)
(***************************************************************************)
C4_CodecInverseAnyValue ==
    pc = "decoded" =>
        (parsed.err = "ok" /\ DecodedMapping(parsed.val) = OptionMapping(ent))

(***************************************************************************)
(* C4 as amended: the same, for values that hold no comma, no "=" and no   *)
(* whitespace other than the space character.                              *)
(***************************************************************************)
PlainValue(v) == \A i \in 1..Len(v) : v[i] \notin {",", "=", "\t", "\n"}

PlainOptions(e) == \A i \in 1..Len(ShortKeys) : PlainValue(option_get(e, ShortKeys[i]))

C4_CodecInverse ==
    (pc = "decoded" /\ PlainOptions(ent)) =>
        (parsed.err = "ok" /\ DecodedMapping(parsed.val) = OptionMapping(ent))

C4_Witness ==
    /\ pc = "decoded"
    /\ PlainOptions(ent)
    /\ Cardinality(OptionMapping(ent)) = 3
    /\ \E p \in OptionMapping(ent) : Contains(p[2], " ")

(***************************************************************************)
(* C8: decoding an option string with a key outside the table (at any      *)
(* position) raises ParseDebError naming that key.                         *)
(***************************************************************************)
GroupsOf(o) == Split(Strip(Unbracket(Strip(o))))

UnknownAt(o, i) == ~ InOptionsD(GroupsOf(o)[i][1])

FirstUnknown(o) ==
    CHOOSE i \in 1..Len(GroupsOf(o)) : UnknownAt(o, i) /\ \A j \in 1..(i - 1) : ~ UnknownAt(o, j)

C8_UnknownOptionError ==
    (pc = "decoded_raw" /\ \E i \in 1..Len(GroupsOf(line)) : UnknownAt(line, i)) =>
        /\ parsed.err = "ParseDebError"
        /\ parsed.named = GroupsOf(line)[FirstUnknown(line)][1]

(***************************************************************************)
(* The one-line parser on lines from outside: a line is up to MaxWords     *)
(* words with one space between them.                                      *)
(***************************************************************************)
LineWords ==
    {<<"deb">>, <<"http://a">>, <<"http://a", "%5B", "x">>, <<"focal">>, <<"main">>,
     <<"[", "arch", "=", "amd64", "]">>, <<"[", "arch", "=", "amd64">>,
     <<"lang", "=", "en", "]">>}

Lines == {Join(ws, <<" ">>) : ws \in UNION {[1..n -> LineWords] : n \in 0..MaxWords}}

InitLine ==
    /\ pc = "line"
    /\ ent = NewSource
    /\ res = NoRes
    /\ parsed = NoParse
    /\ line = << >>
    /\ file = NoFile
    /\ disk = NoDisk

\* debsplit(l)
Tokenize ==
    /\ pc = "line"
    /\ \E l \in Lines : line' = l /\ parsed' = [err |-> "ok", val |-> debsplit(l)]
    /\ pc' = "tokens"
    /\ UNCHANGED <<ent, res, file, disk>>

\* ParseDeb().parse_line(l)
ParseLine ==
    /\ pc = "line"
    /\ \E l \in Lines : line' = l /\ parsed' = parse_line(l)
    /\ pc' = "parsed_line"
    /\ UNCHANGED <<ent, res, file, disk>>

\* The caller is done with the result
LineDone ==
    /\ pc \in {"tokens", "parsed_line"}
    /\ pc' = "line"
    /\ parsed' = NoParse
    /\ line' = << >>
    /\ UNCHANGED <<ent, res, file, disk>>

NextLine == Tokenize \/ ParseLine \/ LineDone

SpecLine == InitLine /\ [][NextLine]_vars

\* The nesting depth of the square brackets of a text after each lexeme
RECURSIVE Depths(_, _)
Depths(l, d) ==
    IF l = << >> THEN << >>
    ELSE LET d1 == IF Head(l) = "[" THEN d + 1 ELSE IF Head(l) = "]" THEN d - 1 ELSE d
         IN  <<d1>> \o Depths(Tail(l), d1)

\* Every "[" is closed, every "]" closes one, and no group holds another
Balanced(l) ==
    /\ \A i \in 1..Len(l) : Depths(l, 0)[i] \in {0, 1}
    /\ l # << >> => Depths(l, 0)[Len(l)] = 0

\* The tokens the grammar gives a line: split at the white space that is
\* outside every bracket group
RECURSIVE GrammarTokens(_, _, _, _)
GrammarTokens(l, d, cur, acc) ==
    IF l = << >> THEN (IF cur = << >> THEN acc ELSE Append(acc, cur))
    ELSE LET c == Head(l)
             d1 == IF c = "[" THEN d + 1 ELSE IF c = "]" THEN d - 1 ELSE d
         IN  IF IsSpace(c) /\ d = 0
             THEN GrammarTokens(Tail(l), d1, << >>, IF cur = << >> THEN acc ELSE Append(acc, cur))
             ELSE GrammarTokens(Tail(l), d1, Append(cur, c), acc)

(***************************************************************************)
(* C5: the tokenizer returns the whitespace-delimited tokens of a line in  *)
(* order, a bracketed group being one token; no token is empty and no      *)
(* token holds white space outside a bracket group.                        *)
(***************************************************************************)
C5_Tokenizer ==
    (pc = "tokens" /\ Balanced(line)) =>
        LET want == GrammarTokens(line, 0, << >>, << >>)
            got == parsed.val
        IN  /\ Len(got) = Len(want)
            /\ \A i \in 1..Len(got) :
                  /\ got[i] # << >>
                  /\ decode_brackets(got[i]) = decode_brackets(want[i])

(***************************************************************************)
(* C6: a line that lacks a type, a URI or a suite, with or without an      *)
(* option group, is refused with ParseDebError and with no other error.    *)
(***************************************************************************)
PlainTokens(l) ==
    SelectSeq(GrammarTokens(l, 0, << >>, << >>), LAMBDA t : Head(t) # "[")

C6_MalformedLine ==
    (pc = "parsed_line" /\ Balanced(line) /\ Len(PlainTokens(line)) < 3) =>
        parsed.err = "ParseDebError"

(***************************************************************************)
(* C7: a line whose square brackets are unbalanced is a parse error for    *)
(* the tokenizer and for the parser: nothing is returned.                  *)
(***************************************************************************)
Unbalanced(l) ==
    \/ \E i \in 1..Len(l) : Depths(l, 0)[i] < 0
    \/ l # << >> /\ Depths(l, 0)[Len(l)] > 0

C7_UnbalancedBrackets ==
    (pc \in {"tokens", "parsed_line"} /\ Unbalanced(line)) => parsed.err # "ok"

(***************************************************************************)
(* SourceFile (file.py).  A file is a record [ident, format, source_path,  *)
(* items, sources]; a path is <<ident, extension>>; an item is a text line *)
(* or a Source; sources maps a count to a Source.                          *)
(***************************************************************************)
TextItem(t) == [kind |-> "text", text |-> t]
SourceItem(e) == [kind |-> "source", src |-> e]

\* SourceFile.detect_file_format
detect_file_format(id, dsk) ==
    IF <<id, "sources">> \in DOMAIN dsk THEN "sources"
    ELSE IF <<id, "list">> \in DOMAIN dsk THEN "list"
    ELSE "none"

\* SourceFile.__init__
NewSourceFile(id, dsk) ==
    [ident |-> id,
     format |-> detect_file_format(id, dsk),
     source_path |-> <<id, detect_file_format(id, dsk)>>,
     items |-> <<TextItem(<<"#", "#", " ", "Added/managed", " ", "by", " ", "Repolib">>),
                 TextItem(<< >>)>>,
     sources |-> << >>]

\* valid_keys of load_deb_sources: the fields that may open a stanza
valid_keys ==
    {"X-Repolib-Name", "X-Repolib-Default-Mirror", "Enabled", "Types", "URIs",
     "Suites", "Components", "Architectures", "Languages", "Targets", "PDiffs",
     "By-Hash", "Allow-Insecure", "Allow-Weak", "Allow-Downgrade-To-Insecure",
     "Trusted", "Signed-By", "Check-Valid-Until", "Valid-Until-Min", "Valid-Until-Max"}

StartsWithKey(l) == Len(l) >= 2 /\ l[1] \in valid_keys /\ l[2] = ":"

\* The ident load_deb_sources gives the entity number count of file f
LoadedIdent(f, count) ==
    IF count > 0 THEN f.ident \o <<"-", ToString(count)>> ELSE f.ident

\* The entity got.ent is stored under the next count and appended to the
\* items, followed by an empty line; an error of the load ends the loop
store_source(st, got, source) ==
    IF got.err # "ok" THEN [st EXCEPT !.err = got.err]
    ELSE [st EXCEPT !.parsing_deb822 = FALSE,
                    !.sources = (st.source_count :> source) @@ @,
                    !.items = @ \o <<SourceItem(source), TextItem(<< >>)>>,
                    !.source_count = @ + 1,
                    !.raw_822 = << >>,
                    !.item = @ + 1]

\* source.file = self; source.ident = self.ident (with the count after the first)
bind_source(f, st, got) ==
    store_source(st, got, set_ident([got.ent EXCEPT !.file = f.ident], LoadedIdent(f, st.source_count)))

\* A stanza is finished by a blank line: the entity is loaded, bound to the
\* file and given its ident.  st is the state of the loop
finish_stanza(f, st) == bind_source(f, st, load_from_data(NewSource, Tail(st.raw_822)))

\* The stanza still open at the end of the file: the entity is loaded and
\* stored as load_from_data left it
unbound_source(st, got) == store_source(st, got, got.ent)

finish_at_eof(f, st) == unbound_source(st, load_from_data(NewSource, Tail(st.raw_822)))

\* One line of the loop outside a stanza
outside_step(f, st, l) ==
    LET commented == l # << >> /\ Head(l) = "#"
        name_line == StartsWith(l, <<"#", "#", " ", "X-Repolib-Name", ":", " ">>)
        valid_legacy == validate_debline(Strip(l))
        \* comments and the name line
        s1 == IF commented /\ ~ valid_legacy /\ ~ name_line
              THEN [st EXCEPT !.items = Append(@, TextItem(Strip(l)))]
              ELSE IF commented /\ ~ valid_legacy /\ name_line
              THEN [st EXCEPT !.name = Strip(SubSeq(l, Find(l, ":") + 2, Len(l)))]
              ELSE st
        \* empty lines count as comments
        s2 == IF Strip(l) = << >> THEN [s1 EXCEPT !.items = Append(@, TextItem(<< >>))] ELSE s1
        \* a line that starts with a key opens a stanza
        s3 == IF StartsWithKey(l)
              THEN [s2 EXCEPT !.parsing_deb822 = TRUE, !.raw_822 = @ \o <<<<ToString(st.item)>>, Strip(l)>>]
              ELSE s2
    IN  IF valid_legacy /\ f.format # "list" THEN [st EXCEPT !.err = "SourceFileError"]
        \* source.parse_debline(line): Source has no such attribute
        ELSE IF valid_legacy THEN [st EXCEPT !.err = "AttributeError"]
        ELSE IF StartsWithKey(l) /\ f.format = "list" THEN [s2 EXCEPT !.err = "SourceFileError"]
        ELSE [s3 EXCEPT !.item = @ + 1]

\* The loop of load_deb_sources over the lines read
RECURSIVE load_loop(_, _, _)
load_loop(f, ls, st) ==
    IF st.err # "ok" THEN st
    ELSE IF ls = << >> THEN (IF st.raw_822 # << >> THEN finish_at_eof(f, st) ELSE st)
    ELSE load_loop(f, Tail(ls),
            IF ~ st.parsing_deb822 THEN outside_step(f, st, Head(ls))
            ELSE IF Strip(Head(ls)) = << >> THEN finish_stanza(f, st)
            ELSE [st EXCEPT !.raw_822 = Append(@, Strip(Head(ls)))])

\* What load_deb_sources leaves: the exception, if any, and the file
loaded(f0, dsk, st) ==
    IF f0.ident = << >> THEN [err |-> "SourceFileError", file |-> f0]
    ELSE IF f0.source_path \notin DOMAIN dsk THEN [err |-> "FileNotFoundError", file |-> f0]
    ELSE [err |-> st.err, file |-> [f0 EXCEPT !.items = st.items, !.sources = st.sources]]

cleared(f) == [f EXCEPT !.items = << >>, !.sources = << >>]

\* SourceFile.load_deb_sources(): [err, file], file as the call leaves it
load_deb_sources(f, dsk) ==
    loaded(cleared(f), dsk,
        IF cleared(f).ident = << >> \/ f.source_path \notin DOMAIN dsk
        THEN [err |-> "ok"]
        ELSE load_loop(cleared(f), dsk[f.source_path],
                 [err |-> "ok", items |-> << >>, sources |-> << >>, parsing_deb822 |-> FALSE,
                  raw_822 |-> << >>, name |-> << >>, source_count |-> 0, item |-> 0]))

(***************************************************************************)
(* Files on disk and their loading.                                        *)
(***************************************************************************)
FileIdent == <<"f">>

FileLines ==
    {<<"deb", " ", "http://a", " ", "focal", " ", "main">>,
     <<"#", " ", "deb", " ", "http://a", " ", "focal", " ", "main">>,
     <<"#", " ", "note">>,
     << >>,
     <<"Types", ":", " ", "deb">>,
     <<"URIs", ":", " ", "http://a">>,
     <<"Suites", ":", " ", "focal">>,
     <<"X-Repolib-ID", ":", " ", "id">>}

FileContents == UNION {[1..n -> FileLines] : n \in 0..MaxFileLines}

InitLoad ==
    /\ pc = "file"
    /\ ent = NewSource
    /\ res = NoRes
    /\ parsed = NoParse
    /\ line = << >>
    /\ \E ext \in {"list", "sources"}, c \in FileContents : disk = (<<FileIdent, ext>> :> c)
    /\ file = NewSourceFile(FileIdent, disk)

\* file.load_deb_sources()
Load ==
    /\ pc = "file"
    /\ pc' = "loaded"
    /\ \E r \in {load_deb_sources(file, disk)} :
          parsed' = [err |-> r.err] /\ file' = r.file
    /\ UNCHANGED <<ent, res, line, disk>>

NextLoad == Load

SpecLoad == InitLoad /\ [][NextLoad]_vars

(***************************************************************************)
(* C10: loading fails with a format-conflict error (SourceFileError) when  *)
(* a valid legacy line, enabled or commented out, stands in a structured   *)
(* file, and when a line that starts with a structured field name stands   *)
(* in a legacy file.                                                       *)
(***************************************************************************)
Content == disk[file.source_path]

C10_FormatConflict ==
    pc = "loaded" =>
        /\ (file.format = "sources"
              /\ \E i \in 1..Len(Content) : validate_debline(Strip(Content[i])))
           => parsed.err = "SourceFileError"
        /\ (file.format = "list" /\ \E i \in 1..Len(Content) : StartsWithKey(Content[i]))
           => parsed.err = "SourceFileError"

(***************************************************************************)
(* SourceFile in memory and on disk: add, remove, save and convert         *)
(* (file.py).  An operation gives [err, file, disk]: the exception it      *)
(* raised, if any, and what it left behind.                                *)
(***************************************************************************)
Outcome(e, f, dsk) == [err |-> e, file |-> f, disk |-> dsk]

\* SourceFile.load_deb_sources(ident): the ident is taken when the file has
\* none; neither the format nor the path is looked at again
load_deb_sources_as(f, dsk, id) ==
    load_deb_sources(IF f.ident = << >> THEN [f EXCEPT !.ident = id] ELSE f, dsk)

\* SourceFile.add_source: the item is appended, then len() of the bound
\* method self.sources.items raises TypeError
add_source(f, dsk, source) ==
    Outcome("TypeError", [f EXCEPT !.items = Append(@, SourceItem(source))], dsk)

\* SourceFile.remove_source: the name index is not defined
remove_source(f, dsk, source) == Outcome("NameError", f, dsk)

\* f'{item}': a text line as it is, an entity as Deb822 prints it (the
\* stanza, ending in a newline)
item_lines(it) == IF it.kind = "text" THEN <<it.text>> ELSE dump(it.src.d) \o << << >> >>

\* SourceFile.generate_output: make_debline and save_output exist on no item,
\* so every item is written as f'{item}', whatever the format
RECURSIVE generate_output(_)
generate_output(its) ==
    IF its = << >> THEN << >> ELSE item_lines(Head(its)) \o generate_output(Tail(its))

\* SourceFile.save_to_disk: Source has no make_key
save_to_disk(f, dsk) ==
    IF f.ident = << >> THEN Outcome("SourceFileError", f, dsk)
    ELSE IF DOMAIN f.sources # {} THEN Outcome("AttributeError", f, dsk)
    ELSE Outcome("ok", f, (f.source_path :> generate_output(f.items)) @@ dsk)

Unlink(dsk, path) == [q \in DOMAIN dsk \ {path} |-> dsk[q]]

OtherFormat(fmt) ==
    IF fmt = "list" THEN "sources" ELSE IF fmt = "sources" THEN "list" ELSE fmt

\* SourceFile.convert_formats: the file is deleted, the format and the path
\* are switched and the file is saved
convert_formats(f, dsk) ==
    IF f.source_path \notin DOMAIN dsk THEN Outcome("FileNotFoundError", f, dsk)
    ELSE save_to_disk([f EXCEPT !.format = OtherFormat(f.format),
                                !.source_path = <<f.ident, OtherFormat(f.format)>>],
                      Unlink(dsk, f.source_path))

(***************************************************************************)
(* A SourceFile through its life: constructed for an ident, loaded, added  *)
(* to, removed from, saved, converted, its ident assigned.  res records    *)
(* the last operation: its name, its exception, its argument, the file and *)
(* the disk before it, and, for a run of conversions, their number and the *)
(* file and disk before the first.                                         *)
(***************************************************************************)
MaxItems == 3

OtherIdent == <<"g">>

Stanza == <<<<"Types", ":", " ", "deb">>, <<"URIs", ":", " ", "http://a">>,
            <<"Suites", ":", " ", "focal">>>>

WideStanza == <<<<"Types", ":", " ", "deb">>, <<"URIs", ":", " ", "http://a", " ", "http://b">>,
                <<"Suites", ":", " ", "focal">>>>

Blank == << << >> >>

StructuredContents ==
    {<<<<"#", " ", "note">>>>, Stanza \o Blank, WideStanza}

LegacyContents ==
    {<<<<"#", " ", "note">>, << >>>>, <<<<"deb", " ", "http://a", " ", "focal", " ", "main">>>>}

\* The sources directory: one file of ident f and a legacy file g
Disks ==
    {(<<OtherIdent, "list">> :> <<<<"#", " ", "note">>>>) @@ d :
        d \in {(<<FileIdent, "sources">> :> c) : c \in StructuredContents}
                 \cup {(<<FileIdent, "list">> :> c) : c \in LegacyContents}}

\* Entities a caller adds: one with an ident of its own and one without
AddPool ==
    {set_suites(set_uris(NewSource, <<<<"http://a">>>>), <<<<"focal">>>>),
     set_ident(set_suites(set_uris(NewSource, <<<<"http://b">>>>), <<<<"focal">>>>), <<"id">>)}

NoOp(f, dsk) ==
    [op |-> "none", err |-> "ok", arg |-> None, before |-> f, disk |-> dsk,
     n |-> 0, first |-> f, first_disk |-> dsk]

\* What res becomes when an operation that is not a conversion ends in o
Done(opname, arg, o) ==
    [op |-> opname, err |-> o.err, arg |-> arg, before |-> file, disk |-> disk,
     n |-> 0, first |-> file, first_disk |-> disk]

InitFile ==
    /\ pc = "file"
    /\ ent = NewSource
    /\ parsed = NoParse
    /\ line = << >>
    /\ disk \in Disks
    /\ \E id \in {<< >>, FileIdent} : file = NewSourceFile(id, disk)
    /\ res = NoOp(file, disk)

\* file.load_deb_sources(ident)
FLoad ==
    /\ pc = "file"
    /\ \E id \in {<< >>, FileIdent} : \E o \in {load_deb_sources_as(file, disk, id)} :
          /\ file' = o.file
          /\ res' = [op |-> "load", err |-> o.err, arg |-> id, before |-> file, disk |-> disk,
                     n |-> 0, first |-> file, first_disk |-> disk]
    /\ UNCHANGED <<pc, ent, parsed, line, disk>>

\* file.add_source(source)
FAdd ==
    /\ pc = "file"
    /\ Len(file.items) < MaxItems
    /\ \E e \in AddPool : \E o \in {add_source(file, disk, e)} :
          file' = o.file /\ res' = Done("add", e, o)
    /\ UNCHANGED <<pc, ent, parsed, line, disk>>

\* file.remove_source(index)
FRemove ==
    /\ pc = "file"
    /\ \E k \in 0..1 : \E o \in {remove_source(file, disk, k)} :
          file' = o.file /\ res' = Done("remove", k, o)
    /\ UNCHANGED <<pc, ent, parsed, line, disk>>

\* file.save_to_disk()
FSave ==
    /\ pc = "file"
    /\ \E o \in {save_to_disk(file, disk)} :
          file' = o.file /\ disk' = o.disk /\ res' = Done("save", None, o)
    /\ UNCHANGED <<pc, ent, parsed, line>>

\* file.convert_formats(), at most twice in a row
FConvert ==
    /\ pc = "file"
    /\ res.n < 2
    /\ \E o \in {convert_formats(file, disk)} :
          /\ file' = o.file
          /\ disk' = o.disk
          /\ res' = [op |-> "convert", err |-> o.err, arg |-> None, before |-> file,
                     disk |-> disk, n |-> res.n + 1,
                     first |-> IF res.n = 0 THEN file ELSE res.first,
                     first_disk |-> IF res.n = 0 THEN disk ELSE res.first_disk]
    /\ UNCHANGED <<pc, ent, parsed, line>>

\* file.ident = ident, as SystemSource.__init__ and the add command assign it
FSetIdent ==
    /\ pc = "file"
    /\ \E id \in {FileIdent, OtherIdent} :
          /\ id # file.ident
          /\ file' = [file EXCEPT !.ident = id]
          /\ res' = [op |-> "ident", err |-> "ok", arg |-> id, before |-> file, disk |-> disk,
                     n |-> 0, first |-> file, first_disk |-> disk]
    /\ UNCHANGED <<pc, ent, parsed, line, disk>>

NextFile == FLoad \/ FAdd \/ FRemove \/ FSave \/ FConvert \/ FSetIdent

SpecFile == InitFile /\ [][NextFile]_vars

\* The entities among the items of a file, in order
EntitiesOf(f) ==
    LET es == SelectSeq(f.items, LAMBDA it : it.kind = "source")
    IN  [j \in 1..Len(es) |-> es[j].src]

IsPath(dsk, path) == path \in DOMAIN dsk

(***************************************************************************)
(* C12: converting a structured file that holds an entity with more than   *)
(* one URI, suite or type fails with a format-conversion error, and no     *)
(* legacy file is written.                                                 *)
(***************************************************************************)
ConversionErrors == {"FormatConversionError", "SourceFileError", "SourceError"}

C12_LossyConversionFails ==
    (/\ res.op = "convert"
     /\ res.before.format = "sources"
     /\ IsPath(res.disk, res.before.source_path)
     /\ \E k \in DOMAIN res.before.sources : TooMany(res.before.sources[k]))
    => /\ res.err \in ConversionErrors
       /\ ~ IsPath(disk, <<file.ident, "list">>)

(***************************************************************************)
(* C13: a structured file whose entities each have one URI, suite and type *)
(* converted twice has its format and path back and every entity's fields  *)
(* as they were.                                                           *)
(***************************************************************************)
C13_ConvertTwice ==
    (/\ res.op = "convert"
     /\ res.n = 2
     /\ res.first.format = "sources"
     /\ IsPath(res.first_disk, res.first.source_path)
     /\ DOMAIN res.first.sources # {}
     /\ \A k \in DOMAIN res.first.sources : ~ TooMany(res.first.sources[k]))
    => /\ res.err = "ok"
       /\ file.format = res.first.format
       /\ file.source_path = res.first.source_path
       /\ file.sources = res.first.sources
       /\ EntitiesOf(file) = EntitiesOf(res.first)

(***************************************************************************)
(* C14: in every state of a file, whatever load, add and remove did, the   *)
(* values of sources are the entities among items, each once and in the    *)
(* same order.                                                             *)
(***************************************************************************)
SourcesMatchItems(f) ==
    LET es == EntitiesOf(f)
    IN  /\ Cardinality(DOMAIN f.sources) = Len(es)
        /\ \E g \in [1..Len(es) -> DOMAIN f.sources] :
              /\ \A a, b \in 1..Len(es) : a < b => g[a] < g[b]
              /\ \A a \in 1..Len(es) : f.sources[g[a]] = es[a]

C14_SourcesIndexItems == SourcesMatchItems(file)

(***************************************************************************)
(* C15: add(entity) appends the entity as the last item, registers it      *)
(* under a fresh index and leaves the other entries alone, sets its file   *)
(* back-reference, and gives it the ident fileIdent-number when it has     *)
(* none, keeping an ident it has.                                          *)
(***************************************************************************)
C15_Add ==
    res.op = "add" =>
        /\ res.err = "ok"
        /\ file.items # << >>
        /\ SubSeq(file.items, 1, Len(file.items) - 1) = res.before.items
        /\ file.items[Len(file.items)].kind = "source"
        /\ LET added == file.items[Len(file.items)].src
           IN  /\ added.file = file.ident
               /\ uris(added) = uris(res.arg)
               /\ ident(res.arg) # << >> => ident(added) = ident(res.arg)
               /\ ident(res.arg) = << >> =>
                     \E k \in 0..MaxItems : ident(added) = LoadedIdent(file, k)
               /\ \E k \in DOMAIN file.sources \ DOMAIN res.before.sources :
                     /\ file.sources[k] = added
                     /\ \A j \in DOMAIN res.before.sources :
                           j \in DOMAIN file.sources /\ file.sources[j] = res.before.sources[j]

(***************************************************************************)
(* C16: remove(index) takes the entity stored at the index out of items    *)
(* and out of sources and leaves every other item, and the order, alone.   *)
(***************************************************************************)
Without(its, e) == SelectSeq(its, LAMBDA it : ~ (it.kind = "source" /\ it.src = e))

C16_Remove ==
    (res.op = "remove" /\ res.arg \in DOMAIN res.before.sources) =>
        /\ res.err = "ok"
        /\ res.arg \notin DOMAIN file.sources
        /\ file.items = Without(res.before.items, res.before.sources[res.arg])
        /\ \A j \in DOMAIN res.before.sources \ {res.arg} :
              j \in DOMAIN file.sources /\ file.sources[j] = res.before.sources[j]

(***************************************************************************)
(* C17: in every state the format of a file is what detect_file_format     *)
(* gives for its ident as it is now.                                       *)
(***************************************************************************)
C17_FormatFollowsIdent == file.format = detect_file_format(file.ident, disk)

(***************************************************************************)
(* The registry (__init__.py): the files and the entities of the system,   *)
(* and the source-code counterpart of an entity.  A scan gives [err,       *)
(* files, errors]; paths is the order in which glob yields the files, the  *)
(* .sources files first.                                                   *)
(***************************************************************************)
SystemIdent == <<"system">>

\* file.sources.values() of a loaded file, whose keys are 0, 1, ...
SourcesSeq(f) == [j \in 1..Cardinality(DOMAIN f.sources) |-> f.sources[j - 1]]

RECURSIVE all_sources_of(_)
all_sources_of(files) ==
    IF files = << >> THEN << >>
    ELSE SelectSeq(SourcesSeq(Head(files)), LAMBDA e : Len(uris(e)) > 0 /\ Len(suites(e)) > 0)
         \o all_sources_of(Tail(files))

\* get_all_sources, given what get_all_files returned or raised
flatten_sources(got) ==
    [err |-> got.err, sources |-> IF got.err = "ok" THEN all_sources_of(got.files) ELSE << >>,
     errors |-> got.errors]

HasCode(e, available, repo) == [err |-> e, available |-> available, repo |-> repo]

\* The search of repo_has_source_code among the deb-src entities
code_matches(source, all_repos) ==
    SelectSeq(all_repos, LAMBDA r : /\ types(r) = <<<<SOURCECODE>>>>
                                    /\ uris(source) = uris(r)
                                    /\ suites(source) = suites(r)
                                    /\ components(source) = components(r))

\* repo_has_source_code, given what get_all_sources(get_system=True)
\* returned or raised: owner is source.file.  A list of types never equals the string 'deb-src'
has_source_code_in(source, owner, all) ==
    IF all.err # "ok" THEN HasCode(all.err, FALSE, None)
    ELSE IF owner = None THEN HasCode("AttributeError", FALSE, None)
    ELSE IF owner.format = "list"
         THEN (IF code_matches(source, all.sources) # << >>
               THEN HasCode("ok", TRUE, Head(code_matches(source, all.sources)))
               ELSE HasCode("ok", FALSE, None))
    ELSE IF owner.format = "sources" THEN HasCode("ok", TRUE, source)
    ELSE HasCode("ok", FALSE, None)

EnableResult(e, repo, source) == [err |-> e, repo |-> repo, source |-> source]

\* enable_code, given what repo_has_source_code returned or raised.  source.types = 'deb deb-src'
\* empties Types and then reads .value of a character; source.copy takes no
\* source_code argument
enable_code_with(source, owner, on, hc) ==
    IF hc.err # "ok" THEN EnableResult(hc.err, None, source)
    ELSE IF owner.format = "sources"
         THEN (IF ~ hc.available THEN EnableResult("ok", None, source)
               ELSE EnableResult("AttributeError", None, [source EXCEPT !.d = DSet(source.d, "Types", << >>)]))
    ELSE IF owner.format = "list"
         THEN (IF ~ hc.available THEN EnableResult("TypeError", None, source)
               ELSE EnableResult("ok", set_enabled(hc.repo, IF on THEN "True" ELSE "False"), source))
    ELSE EnableResult("ok", None, source)

(***************************************************************************)
(* The registry at work on a sources directory.  get_all_files is a loop   *)
(* over the files of the directory, one load per step; res holds the call  *)
(* in progress (its caller, the files still to visit, files and errors so  *)
(* far, the file object whose first load failed) and then what the call    *)
(* returned.  An entity is taken from a file get_all_files returned, its   *)
(* owner; the owner's format is what was detected or what the caller       *)
(* assigned (as the add command does).                                     *)
(***************************************************************************)
SrcStanza == <<<<"Types", ":", " ", "deb-src">>, <<"URIs", ":", " ", "http://a">>,
               <<"Suites", ":", " ", "focal">>>>

LegacyLine == <<"deb", " ", "http://a", " ", "focal", " ", "main">>

\* A stanza with no suite, one with neither URI nor suite, and a whole one
PartStanzas ==
    <<<<"Types", ":", " ", "deb">>, <<"URIs", ":", " ", "http://a">>>> \o Blank
    \o <<<<"Types", ":", " ", "deb">>>> \o Blank \o Stanza \o Blank

\* f.sources, and perhaps a second file g
RegistryDisks ==
    {g @@ (<<FileIdent, "sources">> :> c) :
        c \in {Stanza \o Blank, SrcStanza \o Blank, Stanza \o Blank \o SrcStanza \o Blank,
               <<LegacyLine>>, PartStanzas},
        g \in {<< >>,
               (<<OtherIdent, "list">> :> <<<<"#", " ", "note">>>>),
               (<<OtherIdent, "list">> :> <<LegacyLine>>),
               (<<OtherIdent, "sources">> :> SrcStanza \o Blank),
               (<<OtherIdent, "sources">> :> <<LegacyLine>>)}}

Perms(S) == {q \in [1..Cardinality(S) -> S] : \A a, b \in 1..Cardinality(S) : a # b => q[a] # q[b]}

\* The orders in which glob may yield the files: *.sources, then *.list
GlobOrders(dsk) ==
    {a \o b : a \in Perms({q \in DOMAIN dsk : q[2] = "sources"}),
              b \in Perms({q \in DOMAIN dsk : q[2] = "list"})}

Scanned(e, files, errors) == [err |-> e, files |-> files, errors |-> errors]

\* No file object is in the except branch
NoHeld == [err |-> "ok", file |-> NoFile]

NoCall == [op |-> "none", arg |-> None, out |-> None, before |-> None, system |-> << >>]

\* The call of get_all_files in progress
Scanning(caller, arg, paths, system) ==
    [op |-> "scan", caller |-> caller, arg |-> arg, queue |-> paths,
     acc |-> Scanned("ok", << >>, << >>), held |-> NoHeld, failed |-> {}, system |-> system]

\* get_all_files returns or raises acc: the caller goes on from there
returned(fr, acc, source, owner) ==
    IF fr.caller = "files"
    THEN [op |-> "files", arg |-> fr.arg, out |-> acc, before |-> None,
          failed |-> fr.failed, system |-> << >>]
    ELSE IF fr.caller = "sources"
    THEN [op |-> "sources", arg |-> fr.arg, out |-> flatten_sources(acc), before |-> None,
          scanned |-> acc.files, system |-> << >>]
    ELSE IF fr.caller = "has_code"
    THEN [op |-> "has_code", arg |-> None,
          out |-> has_source_code_in(source, owner, flatten_sources(acc)),
          before |-> source, system |-> fr.system]
    ELSE [op |-> "enable", arg |-> fr.arg,
          out |-> enable_code_with(source, owner, fr.arg,
                                   has_source_code_in(source, owner, flatten_sources(acc))),
          before |-> source, system |-> fr.system]

\* Where the caller stands after the call, and the entity it holds
pc_after(fr) == IF fr.caller \in {"files", "sources"} THEN "registry" ELSE "owned"
ent_after(r, source) == IF r.op = "enable" THEN r.out.source ELSE source

\* get_all_files up to its loops: SystemSource() calls self.parse_file(),
\* which SourceFile does not have
get_all_files(fr, get_system) ==
    IF get_system THEN [fr EXCEPT !.acc.err = "AttributeError", !.queue = << >>] ELSE fr

\* The try branch of one file: the file is loaded and appended to files,
\* or the except branch is entered with the file object
try_load(fr, first) ==
    IF first.err = "ok"
    THEN [fr EXCEPT !.acc.files = Append(@, first.file), !.queue = Tail(@)]
    ELSE [fr EXCEPT !.held = first, !.failed = @ \cup {Head(fr.queue)}]

\* The except branch: the load is made again; when it fails again its
\* exception leaves the function, else the first is recorded
retry_load(fr, second) ==
    IF second.err # "ok"
    THEN [fr EXCEPT !.acc.err = second.err, !.queue = << >>, !.held = NoHeld]
    ELSE [fr EXCEPT !.acc.errors = (Head(fr.queue) :> fr.held.err) @@ @,
                    !.queue = Tail(@), !.held = NoHeld]

\* One load of the scan
scan_step(fr, r) ==
    IF fr.held.err # "ok" THEN retry_load(fr, r)
    ELSE IF Head(fr.queue)[2] = "sources" /\ Head(fr.queue)[1] = SystemIdent
         THEN [fr EXCEPT !.queue = Tail(@)]
    ELSE try_load(fr, r)

\* The file object a step loads: SourceFile(ident=file.stem), or, in the
\* except branch, the object whose load failed
source_file(fr, dsk) ==
    IF fr.held.err # "ok" THEN fr.held.file ELSE NewSourceFile(Head(fr.queue)[1], dsk)

InitRegistry ==
    /\ pc = "registry"
    /\ ent = NewSource
    /\ parsed = NoParse
    /\ line = << >>
    /\ file = NoFile
    /\ disk \in RegistryDisks
    /\ res = NoCall

\* get_all_files(get_system) is called
RGetAllFiles ==
    /\ pc = "registry"
    /\ \E get_system \in BOOLEAN, paths \in GlobOrders(disk) :
          res' = get_all_files(Scanning("files", get_system, paths, << >>), get_system)
    /\ pc' = "scan"
    /\ UNCHANGED <<ent, parsed, line, file, disk>>

\* get_all_sources(get_system) is called; it calls get_all_files
RGetAllSources ==
    /\ pc = "registry"
    /\ \E get_system \in BOOLEAN, paths \in GlobOrders(disk) :
          res' = get_all_files(Scanning("sources", get_system, paths, << >>), get_system)
    /\ pc' = "scan"
    /\ UNCHANGED <<ent, parsed, line, file, disk>>

\* One file of the loops of get_all_files
RScanStep ==
    /\ pc = "scan"
    /\ res.queue # << >>
    /\ \E r \in {load_deb_sources(source_file(res, disk), disk)} :
          res' = scan_step(res, r)
    /\ UNCHANGED <<pc, ent, parsed, line, file, disk>>

\* get_all_files returns, or its exception reaches the caller
RScanReturn ==
    /\ pc = "scan"
    /\ res.queue = << >>
    /\ \E r \in {returned(res, res.acc, ent, file)} :
          /\ res' = r
          /\ ent' = ent_after(r, ent)
    /\ pc' = pc_after(res)
    /\ UNCHANGED <<parsed, line, file, disk>>

\* A caller holds an entity of a file that get_all_files returned
ROpen ==
    /\ pc = "registry"
    /\ res.op = "files"
    /\ res.out.err = "ok"
    /\ \E j \in 1..Len(res.out.files) :
          \E k \in DOMAIN res.out.files[j].sources, fmt \in {"list", "sources"} :
              /\ ent' = res.out.files[j].sources[k]
              /\ file' = [res.out.files[j] EXCEPT !.format = fmt]
    /\ pc' = "owned"
    /\ res' = [NoCall EXCEPT !.system = res.out.files]
    /\ UNCHANGED <<parsed, line, disk>>

\* repo_has_source_code(source) is called; it calls
\* get_all_sources(get_system=True)
RHasCode ==
    /\ pc = "owned"
    /\ \E paths \in GlobOrders(disk) :
          res' = get_all_files(Scanning("has_code", None, paths, res.system), TRUE)
    /\ pc' = "scan"
    /\ UNCHANGED <<ent, parsed, line, file, disk>>

\* enable_code(source, enabled) is called; it calls repo_has_source_code
REnable ==
    /\ pc = "owned"
    /\ \E on \in BOOLEAN, paths \in GlobOrders(disk) :
          res' = get_all_files(Scanning("enable", on, paths, res.system), TRUE)
    /\ pc' = "scan"
    /\ UNCHANGED <<ent, parsed, line, file, disk>>

\* The caller lets the entity go and is left with the files it had listed
RClose ==
    /\ pc = "owned"
    /\ pc' = "registry"
    /\ ent' = NewSource
    /\ file' = NoFile
    /\ res' = [op |-> "files", arg |-> FALSE, out |-> Scanned("ok", res.system, << >>),
               before |-> None, failed |-> {}, system |-> << >>]
    /\ UNCHANGED <<parsed, line, disk>>

NextRegistry ==
    \/ RGetAllFiles \/ RGetAllSources \/ RScanStep \/ RScanReturn
    \/ ROpen \/ RHasCode \/ REnable \/ RClose

SpecRegistry == InitRegistry /\ [][NextRegistry]_vars

(***************************************************************************)
(* C11: when a file of the directory fails to load, get_all_files still    *)
(* returns: the failure is in the error map under that file, and every     *)
(* other file of the directory is in the result.                           *)
(***************************************************************************)
C11_ScanSurvivesFailure ==
    (res.op = "files" /\ res.arg = FALSE /\ res.failed # {}) =>
        /\ res.out.err = "ok"
        /\ res.failed \subseteq DOMAIN res.out.errors
        /\ \A q \in DOMAIN disk \ res.failed :
              \E j \in 1..Len(res.out.files) : res.out.files[j].source_path = q

(***************************************************************************)
(* C18: for a binary entity of a legacy-format file, repo_has_source_code  *)
(* returns (True, e) with e a deb-src entity of the system with the same   *)
(* uris, suites and components when there is one, and (False, None) when   *)
(* there is none.                                                          *)
(***************************************************************************)
SystemEntities ==
    UNION {{res.system[j].sources[k] : k \in DOMAIN res.system[j].sources} :
              j \in 1..Len(res.system)}

Counterparts(e) ==
    {r \in SystemEntities : /\ types(r) = <<<<SOURCECODE>>>>
                            /\ uris(r) = uris(e)
                            /\ suites(r) = suites(e)
                            /\ components(r) = components(e)}

C18_LegacyCounterpart ==
    (res.op = "has_code" /\ file.format = "list" /\ types(ent) = <<<<BINARY>>>>) =>
        /\ res.out.err = "ok"
        /\ Counterparts(ent) # {} => (res.out.available /\ res.out.repo \in Counterparts(ent))
        /\ Counterparts(ent) = {} => (~ res.out.available /\ res.out.repo = None)

(***************************************************************************)
(* C19: for an entity of a structured file, repo_has_source_code answers   *)
(* from the entity's own types: it returns no other entity, and an entity  *)
(* whose only type is deb-src has no counterpart.                          *)
(***************************************************************************)
C19_StructuredCounterpart ==
    (res.op = "has_code" /\ file.format = "sources") =>
        /\ res.out.err = "ok"
        /\ res.out.available => res.out.repo = ent
        /\ types(ent) = <<<<SOURCECODE>>>> => (~ res.out.available /\ res.out.repo = None)

(***************************************************************************)
(* C20: for a binary entity of a structured file, enable_code(entity,      *)
(* True) leaves the entity with types deb and deb-src, enable_code(entity, *)
(* False) with type deb, and the file keeps its items.                     *)
(***************************************************************************)
TypeSet(e) == {types(e)[j] : j \in 1..Len(types(e))}

C20_EnableCodeStructured ==
    (res.op = "enable" /\ file.format = "sources" /\ types(res.before) = <<<<BINARY>>>>) =>
        /\ res.out.err = "ok"
        /\ res.arg => TypeSet(ent) = {<<BINARY>>, <<SOURCECODE>>}
        /\ ~ res.arg => TypeSet(ent) = {<<BINARY>>}
        /\ \E j \in 1..Len(res.system) : /\ res.system[j].source_path = file.source_path
                                         /\ res.system[j].items = file.items

(***************************************************************************)
(* parse_name_ident on the trailing comment of a legacy line.              *)
(***************************************************************************)
MaxTagWords == 4

TagWords ==
    {<<"X-Repolib-Name", ":">>, <<"X-Repolib-Ident", ":">>, <<"X-Repolib-ID", ":">>,
     <<"a">>, <<"b">>, <<"#">>, <<"#", "c">>}

TagComments == {Join(ws, <<" ">>) : ws \in UNION {[1..n -> TagWords] : n \in 0..MaxTagWords}}

InitTags ==
    /\ pc = "comment"
    /\ ent = NewSource
    /\ res = NoRes
    /\ parsed = NoParse
    /\ line = << >>
    /\ file = NoFile
    /\ disk = NoDisk

\* parse_name_ident(c)
ExtractTags ==
    /\ pc = "comment"
    /\ \E c \in TagComments : line' = c /\ parsed' = parse_name_ident(c)
    /\ pc' = "extracted"
    /\ UNCHANGED <<ent, res, file, disk>>

\* The caller is done with the result
TagsDone ==
    /\ pc = "extracted"
    /\ pc' = "comment"
    /\ parsed' = NoParse
    /\ line' = << >>
    /\ UNCHANGED <<ent, res, file, disk>>

NextTags == ExtractTags \/ TagsDone

SpecTags == InitTags /\ [][NextTags]_vars

(***************************************************************************)
(* C21: the extractor returns (name, ident, comment): name is the tokens   *)
(* after an X-Repolib-Name: tag up to the next tag, the next # sub-comment *)
(* or the end; ident is the value after an X-Repolib-Ident: or an          *)
(* X-Repolib-ID: tag; comment is the other tokens in order; each is empty  *)
(* when its part is absent.                                                *)
(***************************************************************************)
IsNameTag(w) == StartsWith(StripChars(w, {"#"}), <<"X-Repolib-Name", ":">>)

IsIdentTag(w) ==
    \/ StartsWith(StripChars(w, {"#"}), <<"X-Repolib-Ident", ":">>)
    \/ StartsWith(StripChars(w, {"#"}), <<"X-Repolib-ID", ":">>)

TaggedStep(st, w) ==
    IF IsNameTag(w) THEN [st EXCEPT !.field = "name"]
    ELSE IF IsIdentTag(w) THEN [st EXCEPT !.field = "ident"]
    ELSE IF Contains(w, "#")
         THEN [st EXCEPT !.field = "none", !.comment = Append(@, StripChars(w, {"#"}))]
    ELSE IF st.field = "name" THEN [st EXCEPT !.name = Append(@, w)]
    ELSE IF st.field = "ident" THEN [st EXCEPT !.ident = w, !.field = "none"]
    ELSE [st EXCEPT !.comment = Append(@, w)]

RECURSIVE TaggedScan(_, _)
TaggedScan(ws, st) ==
    IF ws = << >> THEN st ELSE TaggedScan(Tail(ws), TaggedStep(st, Head(ws)))

Tagged(c) ==
    TaggedScan(Split(strip_hashes(c)),
               [field |-> "none", name |-> << >>, ident |-> << >>, comment |-> << >>])

C21_TagExtraction ==
    pc = "extracted" =>
        /\ parsed.err = "ok"
        /\ parsed.name = Join(Tagged(line).name, <<" ">>)
        /\ parsed.ident = Tagged(line).ident
        /\ parsed.comment = Strip(Join(Tagged(line).comment, <<" ">>))

(***************************************************************************)
(* C22: after a successful load, items has one element per element of the  *)
(* file, in file order: an entity per stanza (or legacy line) and a text   *)
(* item for every other line.                                              *)
(***************************************************************************)
EntityMark == [kind |-> "source"]

RECURSIVE ElementsOf(_, _)
ElementsOf(ls, in_stanza) ==
    IF ls = << >> THEN (IF in_stanza THEN <<EntityMark>> ELSE << >>)
    ELSE IF in_stanza
         THEN (IF Strip(Head(ls)) = << >>
               THEN <<EntityMark, TextItem(<< >>)>> \o ElementsOf(Tail(ls), FALSE)
               ELSE ElementsOf(Tail(ls), TRUE))
    ELSE IF StartsWithKey(Head(ls)) THEN ElementsOf(Tail(ls), TRUE)
    ELSE IF validate_debline(Strip(Head(ls))) THEN <<EntityMark>> \o ElementsOf(Tail(ls), FALSE)
    ELSE <<TextItem(Strip(Head(ls)))>> \o ElementsOf(Tail(ls), FALSE)

Shape(its) == [j \in 1..Len(its) |-> IF its[j].kind = "source" THEN EntityMark ELSE its[j]]

C22_ItemsMirrorFile ==
    (pc = "loaded" /\ parsed.err = "ok") => Shape(file.items) = ElementsOf(Content, FALSE)

(***************************************************************************)
(* C23: a load that fails on a grammar violation leaves no partial parse:  *)
(* items and sources hold none of the entries read before the violation.   *)
(***************************************************************************)
C23_NoPartialParse ==
    (pc = "loaded" /\ parsed.err \in {"SourceFileError", "ParseDebError", "SourceError"}) =>
        file.items = << >> /\ file.sources = << >>

(***************************************************************************)
(* Copying an entity.  Source defines no copy: source.copy(source_code=..) *)
(* is Deb822.copy(self), and PPASource.copy hands its argument on to it.   *)
(***************************************************************************)
\* Deb822.copy(self) called with the keyword source_code, which it does
\* not take
deb822_copy(e, source_code) == [err |-> "TypeError", ent |-> None]

\* PPASource.copy: PPASource(self.shortcut), then super().copy(source_code=...)
copy(e, source_code) == deb822_copy(e, source_code)

\* new_source.copy(source_code=...)
Copy ==
    /\ pc = "edit"
    /\ \E source_code \in BOOLEAN :
          /\ parsed' = copy(ent, source_code)
          /\ line' = IF source_code THEN <<"source_code">> ELSE << >>
    /\ pc' = "copied"
    /\ UNCHANGED <<ent, res, file, disk>>

\* The caller goes on with the entity it had
CopyDone ==
    /\ pc = "copied"
    /\ pc' = "edit"
    /\ parsed' = NoParse
    /\ line' = << >>
    /\ UNCHANGED <<ent, res, file, disk>>

NextCopy ==
    \/ SetIdent \/ SetEnabled \/ SetTypes \/ SetUris \/ SetSuites \/ SetComponents
    \/ Copy \/ CopyDone

SpecCopy == Init /\ [][NextCopy]_vars

(***************************************************************************)
(* C25: copy returns a new entity with the fields of the original, except  *)
(* that its types are exactly deb-src when the source-code variant is      *)
(* asked for; the original is unchanged.                                   *)
(***************************************************************************)
C25_Copy ==
    pc = "copied" =>
        /\ parsed.err = "ok"
        /\ ident(parsed.ent) = ident(ent)
        /\ enabled(parsed.ent) = enabled(ent)
        /\ uris(parsed.ent) = uris(ent)
        /\ suites(parsed.ent) = suites(ent)
        /\ components(parsed.ent) = components(ent)
        /\ types(parsed.ent) = IF line # << >> THEN <<<<SOURCECODE>>>> ELSE types(ent)

(***************************************************************************)
(* C24: get_all_sources returns the entities of all the files that load,   *)
(* in file order, leaving out exactly those that have neither a URI nor a  *)
(* suite.                                                                  *)
(***************************************************************************)
HasNeither(e) == uris(e) = << >> /\ suites(e) = << >>

RECURSIVE ListedEntities(_)
ListedEntities(files) ==
    IF files = << >> THEN << >>
    ELSE SelectSeq(SourcesSeq(Head(files)), LAMBDA e : ~ HasNeither(e))
         \o ListedEntities(Tail(files))

C24_SourcesFilter ==
    res.op = "sources" =>
        /\ res.out.err = "ok"
        /\ res.out.sources = ListedEntities(res.scanned)

(***************************************************************************)
(* The same file loaded as it ends and with a blank line after its last    *)
(* line: res keeps what the first load gave.                               *)
(***************************************************************************)
\* A blank line is written after the last line of the file, and the file
\* is opened anew
EndWithBlank ==
    /\ pc = "loaded"
    /\ res = NoRes
    /\ Content # << >>
    /\ Strip(Content[Len(Content)]) # << >>
    /\ disk' = [disk EXCEPT ![file.source_path] = Append(@, << >>)]
    /\ res' = [err |-> parsed.err, text |-> << >>, first |-> file]
    /\ file' = NewSourceFile(FileIdent, disk')
    /\ parsed' = NoParse
    /\ pc' = "file"
    /\ UNCHANGED <<ent, line>>

NextStanzaEnd == Load \/ EndWithBlank

SpecStanzaEnd == InitLoad /\ [][NextStanzaEnd]_vars

(***************************************************************************)
(* C26: the end of the file ends a stanza as a blank line does: a          *)
(* structured file gives the same entities, with the same idents, file     *)
(* back-references and fields, with and without a blank line after its     *)
(* last stanza.                                                            *)
(***************************************************************************)
C26_EofEndsStanza ==
    (pc = "loaded" /\ res # NoRes /\ file.format = "sources") =>
        /\ parsed.err = res.err
        /\ EntitiesOf(file) = EntitiesOf(res.first)

(***************************************************************************)
(* C27: after a successful load, and after the adds that follow it, no two *)
(* entities of a file have the same ident and none has an empty ident.     *)
(***************************************************************************)
IdentsDistinct(es) ==
    /\ \A a \in 1..Len(es) : ident(es[a]) # << >>
    /\ \A a, b \in 1..Len(es) : a # b => ident(es[a]) # ident(es[b])

C27_IdentsUnique ==
    /\ (res.op = "load" /\ res.err = "ok") => IdentsDistinct(EntitiesOf(file))
    /\ (res.op = "add" /\ IdentsDistinct(EntitiesOf(res.before))) => IdentsDistinct(EntitiesOf(file))

(***************************************************************************)
(* C28: save writes the file named by the current ident and the current    *)
(* format of the Source File, whatever was constructed, assigned or        *)
(* converted before.                                                       *)
(***************************************************************************)
C28_SavePath ==
    (res.op = "save" /\ res.err = "ok") =>
        /\ file.source_path = <<file.ident, file.format>>
        /\ IsPath(disk, <<file.ident, file.format>>)
        /\ disk[<<file.ident, file.format>>] = generate_output(file.items)

(***************************************************************************)
(* C29: convert_formats deletes the file under the old extension only if   *)
(* the file under the new extension has been written, also when the save   *)
(* fails; on a file whose format is none it changes neither the format nor *)
(* the disk.                                                               *)
(***************************************************************************)
C29_ConvertKeepsAFile ==
    res.op = "convert" =>
        /\ (IsPath(res.disk, res.before.source_path) /\ ~ IsPath(disk, res.before.source_path))
              => IsPath(disk, <<res.before.ident, OtherFormat(res.before.format)>>)
        /\ res.before.format = "none" => (file.format = "none" /\ disk = res.disk)


(***************************************************************************)
(* C30: for a binary entity of a legacy-format file that has no source-code *)
(* counterpart, every enable_code call on it (the first, and the one made  *)
(* right after it with no save in between) returns, and the owning file    *)
(* then holds exactly one source-code sibling of the entity.               *)
(***************************************************************************)
Siblings(e, owner) ==
    {k \in DOMAIN owner.sources : /\ types(owner.sources[k]) = <<<<SOURCECODE>>>>
                                  /\ uris(owner.sources[k]) = uris(e)
                                  /\ suites(owner.sources[k]) = suites(e)
                                  /\ components(owner.sources[k]) = components(e)}

C30_EnableTwiceOneSibling ==
    (/\ res.op = "enable"
     /\ file.format = "list"
     /\ types(res.before) = <<<<BINARY>>>>
     /\ Counterparts(res.before) = {}) =>
        /\ res.out.err = "ok"
        /\ Cardinality(Siblings(res.before, file)) = 1

=============================================================================
